---- MODULE Spec2Model ----
(***************************************************************************)
(* Michael Page jobs scraper: the crawl of the three variants kept in the  *)
(* repository.                                                             *)
(*   "cheerio" : src/unnamed/part_000 lines 1-203, one CheerioCrawler for  *)
(*               LIST and DETAIL requests, maxConcurrency 2;               *)
(*   "hybrid"  : src/unnamed/part_000 lines 205-515, a listing crawler     *)
(*               (maxConcurrency 1) that fills jobUrls, then a detail      *)
(*               crawler (maxConcurrency 10) over jobUrls.slice(0, N);     *)
(*   "api"     : src/src/main.js lines 478-873, one PlaywrightCrawler      *)
(*               (maxConcurrency 1) with response listeners that fill      *)
(*               capturedJobs while a page is open.                        *)
(*               (lines 1-476 of that file hold an earlier copy with the   *)
(*               same handler structure.)                                  *)
(* A request handler is an async function: it runs without interruption    *)
(* from one await to the next, so each action below is one such segment.   *)
(***************************************************************************)
EXTENDS Integers, Sequences, FiniteSets, TLC

\* ---------------------------------------------------------------- bounds
NumUrls == 2
MaxLinks == 2
MaxStart == 2
MaxWanted == 2
MaxPagesBound == 2

\* ------------------------------------------------------ program constants
CheerioConcurrency == 2
ListingConcurrency == 1
DetailConcurrency == 10
ApiConcurrency == 1
DetailSliceLimit == 50

Variants == {"cheerio", "hybrid", "api"}
Urls == 1..NumUrls

VARIABLES
    variant,          \* which of the three programs runs
    RESULTS_WANTED,   \* effective target result count (an integer >= 1)
    MAX_PAGES,        \* effective page cap (an integer >= 1)
    collectDetails,   \* input toggle
    initial,          \* number of start URLs
    phase,            \* "crawl" | "detail" (hybrid, phase 2) | "exited"
    queue,            \* pending requests of the running crawler, FIFO
    running,          \* requests taken from the queue and not yet finished
    saved,            \* let saved = 0
    seenUrls,         \* const seenUrls = new Set()
    seenOrder,        \* history: the URLs in the order they were first read from a document
    capturedJobs,     \* const capturedJobs = []   (api)
    jobUrls,          \* const jobUrls = []        (hybrid)
    dataset,          \* what Dataset.pushData has been handed, in order
    detailUrls,       \* history: URLs collected or enqueued for detail, in order
    listPages,        \* history: per start URL, listing pages fetched
    lastList,         \* history: what the last listing page handled held (PageKind)
    failed,           \* history: the requests given to failedRequestHandler
    exitStatus,       \* "running" | "succeeded" | "failed"
    arg,              \* the input a function of the program is applied to
    fn,               \* which function was applied ("none" before)
    res               \* what it returned

crawl == <<variant, RESULTS_WANTED, MAX_PAGES, collectDetails, initial, phase,
           queue, running, saved, seenUrls, seenOrder, capturedJobs, jobUrls,
           dataset, detailUrls, listPages, lastList, failed, exitStatus>>

\* The crawl leaves these alone; the specifications of single functions
\* (below the crawl) use them.
work == <<arg, fn, res>>

vars == <<crawl, work>>

config == <<variant, RESULTS_WANTED, MAX_PAGES, collectDetails, initial>>

\* --------------------------------------------------------------- helpers
Min(a, b) == IF a < b THEN a ELSE b
Max(a, b) == IF a > b THEN a ELSE b
Range(s) == {s[i] : i \in 1..Len(s)}
SeqsUpTo(S, n) == UNION {[1..k -> S] : k \in 0..n}
NoDuplicates(s) == \A i, j \in 1..Len(s) : i # j => s[i] # s[j]

\* Array.prototype.slice(0, end): a negative end counts from the back.
JsSlice(s, end) ==
    IF end < 0 THEN SubSeq(s, 1, Max(0, Len(s) + end))
    ELSE SubSeq(s, 1, Min(end, Len(s)))

\* ------------------------------------------------------ requests, pages
ListRequest(s, p, fromNew) ==
    [label |-> "LIST", start |-> s, pageNo |-> p, url |-> 0, parentNew |-> fromNew,
     retryCount |-> 0]
DetailRequest(u) ==
    [label |-> "DETAIL", start |-> 0, pageNo |-> 0, url |-> u, parentNew |-> TRUE,
     retryCount |-> 0]

\* A handler in flight: the request, where it stands, and the locals it
\* keeps across an await.
Handler(r) == [req |-> r, pc |-> "fetch", n |-> 0, i |-> 0, hadLinks |-> FALSE]

\* userData.pageNo of a start request.
FirstPage == IF variant = "cheerio" THEN 1 ELSE 0

\* The job URLs are interchangeable names, and a handler asks of a row only
\* whether seenUrls has its URL.  So a row of a document is, up to renaming,
\* one of: a job already seen (the least such name), a job captured and not
\* yet seen (any of them), or the next job no document has named.
Least(S, u) == u \in S /\ \A v \in S : u <= v

Canonical(s, seen, captured) ==
    \A i \in 1..Len(s) :
        LET old == seen \cup {s[j] : j \in 1..(i - 1)} IN
        \/ Least(old, s[i])
        \/ s[i] \in captured \ old
        \/ Least(Urls \ (old \cup captured), s[i])

\* The anchors a listing page may hold, in document order; rows may repeat
\* within the page and across pages.
ListingPages(seen, captured) ==
    {s \in SeqsUpTo(Urls, MaxLinks) : Canonical(s, seen, captured)}

\* A detail document: "titled" gives a title (from its JobPosting or its
\* heading), "untitled" gives none.  Neither names a hiring organization
\* ("Michael Page doesn't list company name", part_000 line 156).
DetailDocs == {"titled", "untitled"}

\* What a listing page held: no row at all ("empty"), only rows whose URL was
\* already seen ("seen"), or at least one new link ("new").
PageKind(anchors, links) ==
    CASE Len(links) > 0 -> "new"
      [] Len(anchors) > 0 -> "seen"
      [] OTHER -> "empty"

\* The URLs a document is the first to name, in document order: the rows
\* whose URL is neither in seen nor on an earlier row of the document.
FirstSeen(anchors, seen) ==
    LET first == {i \in 1..Len(anchors) :
                     /\ anchors[i] \notin seen
                     /\ \A j \in 1..(i - 1) : anchors[j] # anchors[i]}
        nth(k) == CHOOSE i \in first : Cardinality({j \in first : j <= i}) = k
    IN [k \in 1..Cardinality(first) |-> anchors[nth(k)]]

\* maxConcurrency of the crawler that fetches the detail pages of program v.
DetailBound(v) ==
    CASE v = "cheerio" -> CheerioConcurrency
      [] v = "api" -> ApiConcurrency
      [] OTHER -> DetailConcurrency

\* maxConcurrency of the crawler that is running.
Concurrency ==
    IF variant = "hybrid" /\ phase = "crawl" THEN ListingConcurrency
    ELSE DetailBound(variant)

\* A pool that takes a request whatever is in flight: C27 fails with it.
SlotFree_always(inFlight, bound) == inFlight >= 0

\* The crawler's pool starts a request only while fewer than maxConcurrency
\* are in flight.
SlotFree(inFlight, bound) == inFlight < bound

Init ==
    /\ variant \in Variants
    /\ RESULTS_WANTED \in 1..MaxWanted
    /\ MAX_PAGES \in 1..MaxPagesBound
    /\ collectDetails \in BOOLEAN
    /\ initial \in 1..MaxStart
    /\ phase = "crawl"
    /\ queue = [s \in 1..initial |->
                  ListRequest(s, IF variant = "cheerio" THEN 1 ELSE 0, TRUE)]
    /\ running = {}
    /\ saved = 0
    /\ seenUrls = {}
    /\ seenOrder = <<>>
    /\ capturedJobs = <<>>
    /\ jobUrls = <<>>
    /\ dataset = <<>>
    /\ detailUrls = <<>>
    /\ listPages = [s \in 1..MaxStart |-> 0]
    /\ lastList = "none"
    /\ failed = {}
    /\ exitStatus = "running"
    /\ arg = <<>> /\ fn = "none" /\ res = <<>>

\* ------------------------------------------------------------- records
\* A dataset item, by the fields the claims read.  A field the item does not
\* carry is "absent"; a field it carries with the value null is "null".
Item(u, t, c, k) == [url |-> u, title |-> t, company |-> c, kind |-> k]

\* A URL-only item that also carries a title: C12 fails with it.
UrlItem_withTitle(u) == Item(u, "Title", "absent", "url")

\* toPush.map(u => ({ url: u, ... })): a URL-only item.
UrlItem(u) == Item(u, "absent", "absent", "url")
UrlItems(urls) == [k \in 1..Len(urls) |-> UrlItem(urls[k])]

\* title: jsonLd?.title || jsonLd?.name || $('h1').first().text().trim() || ...
DocTitle(doc) == IF doc = "titled" THEN "Title" ELSE "null"

\* company: jsonLd?.hiringOrganization?.name || null
DocCompany(doc) == "null"

\* The cheerio variant's item: title: data.title || null, pushed as built.
CheerioItem(u, doc) == Item(u, DocTitle(doc), DocCompany(doc), "detail")

\* The hybrid and api variants' data object.
DetailData(u, doc) == Item(u, DocTitle(doc), DocCompany(doc), "detail")

\* if (!data.title) return;  -- present in the hybrid and api variants.
HasTitle(data) == data.title # "null"

\* ------------------------------------------------------- link discovery
\* A link discovery that keeps every anchor, seen or not: C2 fails with it.
findJobLinks_everyAnchor(anchors, seen) == anchors

\* Cheerio variant: each anchor not yet in seenUrls is added to the page's
\* links and to seenUrls, in document order.
RECURSIVE findJobLinks(_, _)
findJobLinks(anchors, seen) ==
    IF anchors = <<>> THEN <<>>
    ELSE IF Head(anchors) \notin seen
         THEN <<Head(anchors)>> \o findJobLinks(Tail(anchors), seen \cup {Head(anchors)})
         ELSE findJobLinks(Tail(anchors), seen)

\* ------------------------------------------------------ crawler runtime
\* The crawler takes the next request when a slot is free and starts its
\* fetch.
StartFetch ==
    /\ phase \in {"crawl", "detail"}
    /\ queue # <<>>
    /\ SlotFree(Cardinality(running), Concurrency)
    /\ running' = running \cup {Handler(Head(queue))}
    /\ queue' = Tail(queue)
    /\ listPages' = IF Head(queue).label = "LIST"
                    THEN [listPages EXCEPT ![Head(queue).start] = @ + 1]
                    ELSE listPages
    /\ UNCHANGED <<work, config, phase, saved, seenUrls, seenOrder, capturedJobs, jobUrls, dataset,
                   detailUrls, lastList, failed, exitStatus>>

\* The fetch fails for good (the crawler's own retries are used up): the
\* request goes to failedRequestHandler, which only logs.
failedRequestHandler(h) ==
    /\ h.pc = "fetch"
    /\ running' = running \ {h}
    /\ failed' = failed \cup {h.req}
    /\ UNCHANGED <<work, config, phase, queue, saved, seenUrls, seenOrder, capturedJobs, jobUrls,
                   dataset, detailUrls, listPages, lastList, exitStatus>>

\* --------------------------------------------------------- cheerio variant
\* A pagination test without the page cap: C3 fails with it.
CheerioNextPage_noPageCap(pageNo, hadLinks, savedNow) ==
    savedNow < RESULTS_WANTED /\ hadLinks

\* if (saved < RESULTS_WANTED && pageNo < MAX_PAGES && links.length > 0)
CheerioNextPage(pageNo, hadLinks, savedNow) ==
    savedNow < RESULTS_WANTED /\ pageNo < MAX_PAGES /\ hadLinks

\* The queue after the pagination step of a LIST handler.
CheerioPaginate(q, req, hadLinks, savedNow) ==
    IF CheerioNextPage(req.pageNo, hadLinks, savedNow)
    THEN Append(q, ListRequest(req.start, req.pageNo + 1, hadLinks))
    ELSE q

\* links.slice(0, Math.max(0, remaining))
CheerioSlice(links, savedNow) == JsSlice(links, Max(0, RESULTS_WANTED - savedNow))

\* LIST, up to the first await (enqueueLinks or Dataset.pushData); with
\* nothing to enqueue or push the handler runs through to its end.
CheerioList(h, anchors) ==
    LET links == findJobLinks(anchors, seenUrls)
        take == CheerioSlice(links, saved)
        had == Len(links) > 0
    IN
    /\ variant = "cheerio" /\ h.pc = "fetch" /\ h.req.label = "LIST"
    /\ seenUrls' = seenUrls \cup Range(links)
    /\ seenOrder' = seenOrder \o FirstSeen(anchors, seenUrls)
    /\ lastList' = PageKind(anchors, links)
    /\ IF take = <<>>
       THEN /\ queue' = CheerioPaginate(queue, h.req, had, saved)
            /\ running' = running \ {h}
            /\ UNCHANGED <<dataset, detailUrls>>
       ELSE /\ running' = (running \ {h}) \cup
                          {[h EXCEPT !.pc = "await", !.n = Len(take), !.hadLinks = had]}
            /\ IF collectDetails
               THEN /\ queue' = queue \o [k \in 1..Len(take) |-> DetailRequest(take[k])]
                    /\ detailUrls' = detailUrls \o take
                    /\ UNCHANGED dataset
               ELSE /\ dataset' = dataset \o UrlItems(take)
                    /\ detailUrls' = detailUrls \o take
                    /\ UNCHANGED queue
    /\ UNCHANGED <<work, config, phase, saved, capturedJobs, jobUrls, listPages, failed, exitStatus>>

\* LIST, after the await: saved += toPush.length (URL-only mode), then the
\* pagination check on the value saved has now.
CheerioListResume(h) ==
    LET savedNow == IF collectDetails THEN saved ELSE saved + h.n IN
    /\ variant = "cheerio" /\ h.pc = "await" /\ h.req.label = "LIST"
    /\ saved' = savedNow
    /\ queue' = CheerioPaginate(queue, h.req, h.hadLinks, savedNow)
    /\ running' = running \ {h}
    /\ UNCHANGED <<work, config, phase, seenUrls, seenOrder, capturedJobs, jobUrls, dataset, detailUrls,
                   listPages, lastList, failed, exitStatus>>

\* DETAIL, up to await Dataset.pushData(item).
CheerioDetail(h, doc) ==
    /\ variant = "cheerio" /\ h.pc = "fetch" /\ h.req.label = "DETAIL"
    /\ IF saved >= RESULTS_WANTED
       THEN /\ running' = running \ {h}
            /\ UNCHANGED dataset
       ELSE /\ dataset' = Append(dataset, CheerioItem(h.req.url, doc))
            /\ running' = (running \ {h}) \cup {[h EXCEPT !.pc = "await"]}
    /\ UNCHANGED <<work, config, phase, queue, saved, seenUrls, seenOrder, capturedJobs, jobUrls,
                   detailUrls, listPages, lastList, failed, exitStatus>>

\* DETAIL, after the await: saved++.
CheerioDetailResume(h) ==
    /\ variant = "cheerio" /\ h.pc = "await" /\ h.req.label = "DETAIL"
    /\ saved' = saved + 1
    /\ running' = running \ {h}
    /\ UNCHANGED <<work, config, phase, queue, seenUrls, seenOrder, capturedJobs, jobUrls, dataset,
                   detailUrls, listPages, lastList, failed, exitStatus>>

\* ---------------------------------------------------------- hybrid variant
\* A filter that hands the new links back last-first: C11 fails with it.
uniqueLinks_lastFirst(links, seen) ==
    LET new == FirstSeen(links, seen) IN
    [k \in 1..Len(new) |-> new[Len(new) + 1 - k]]

\* links.filter(link => { if (seenUrls.has(link)) return false;
\*                        seenUrls.add(link); return true; })
RECURSIVE uniqueLinks(_, _)
uniqueLinks(links, seen) ==
    IF links = <<>> THEN <<>>
    ELSE IF Head(links) \in seen
         THEN uniqueLinks(Tail(links), seen)
         ELSE <<Head(links)>> \o uniqueLinks(Tail(links), seen \cup {Head(links)})

\* if (jobUrls.length < RESULTS_WANTED && pageNo < MAX_PAGES - 1 && uniqueLinks.length > 0)
HybridNextPage(pageNo, hadLinks, collected) ==
    collected < RESULTS_WANTED /\ pageNo < MAX_PAGES - 1 /\ hadLinks

\* const urlsToFetch = jobUrls.slice(0, RESULTS_WANTED)
urlsToFetch == JsSlice(jobUrls, RESULTS_WANTED)

\* The listing crawler's requestHandler; with maxConcurrency 1 nothing runs
\* between its awaits.
HybridList(h, anchors) ==
    LET unique == uniqueLinks(anchors, seenUrls)
        had == Len(unique) > 0
        all == jobUrls \o unique
    IN
    /\ variant = "hybrid" /\ phase = "crawl" /\ h.pc = "fetch"
    /\ seenUrls' = seenUrls \cup Range(unique)
    /\ seenOrder' = seenOrder \o FirstSeen(anchors, seenUrls)
    /\ jobUrls' = all
    /\ detailUrls' = detailUrls \o unique
    /\ lastList' = PageKind(anchors, unique)
    /\ queue' = IF HybridNextPage(h.req.pageNo, had, Len(all))
                THEN Append(queue, ListRequest(h.req.start, h.req.pageNo + 1, had))
                ELSE queue
    /\ running' = running \ {h}
    /\ UNCHANGED <<work, config, phase, saved, capturedJobs, dataset, listPages, failed,
                   exitStatus>>

\* A phase 1 that ends the run as failed when no job URL was found: C13
\* fails with it.
HybridNoUrls_raise ==
    /\ variant = "hybrid" /\ phase = "crawl" /\ queue = <<>> /\ running = {}
    /\ Len(jobUrls) = 0
    /\ phase' = "exited"
    /\ exitStatus' = "failed"
    /\ UNCHANGED <<work, config, queue, running, saved, seenUrls, seenOrder, capturedJobs, jobUrls,
                   dataset, detailUrls, listPages, lastList, failed>>

\* Phase 1 complete with no job URL: Actor.exit() and return.
HybridNoUrls ==
    /\ variant = "hybrid" /\ phase = "crawl" /\ queue = <<>> /\ running = {}
    /\ Len(jobUrls) = 0
    /\ phase' = "exited"
    /\ exitStatus' = "succeeded"
    /\ UNCHANGED <<work, config, queue, running, saved, seenUrls, seenOrder, capturedJobs, jobUrls,
                   dataset, detailUrls, listPages, lastList, failed>>

\* if (!collectDetails): one push of jobUrls.slice(0, RESULTS_WANTED), then exit.
HybridSaveUrls ==
    /\ variant = "hybrid" /\ phase = "crawl" /\ queue = <<>> /\ running = {}
    /\ Len(jobUrls) # 0 /\ ~collectDetails
    /\ dataset' = dataset \o UrlItems(JsSlice(jobUrls, RESULTS_WANTED))
    /\ phase' = "exited"
    /\ exitStatus' = "succeeded"
    /\ UNCHANGED <<work, config, queue, running, saved, seenUrls, seenOrder, capturedJobs, jobUrls,
                   detailUrls, listPages, lastList, failed>>

\* Phase 2 starts: the detail queue receives urlsToFetch, in order.
HybridStartDetails ==
    /\ variant = "hybrid" /\ phase = "crawl" /\ queue = <<>> /\ running = {}
    /\ Len(jobUrls) # 0 /\ collectDetails
    /\ queue' = [k \in 1..Len(urlsToFetch) |-> DetailRequest(urlsToFetch[k])]
    /\ phase' = "detail"
    /\ UNCHANGED <<work, config, running, saved, seenUrls, seenOrder, capturedJobs, jobUrls, dataset,
                   detailUrls, listPages, lastList, failed, exitStatus>>

\* The detail crawler's requestHandler up to await Dataset.pushData(data).
HybridDetail(h, doc) ==
    LET data == DetailData(h.req.url, doc) IN
    /\ variant = "hybrid" /\ phase = "detail" /\ h.pc = "fetch"
    /\ IF saved >= RESULTS_WANTED \/ ~HasTitle(data)
       THEN /\ running' = running \ {h}
            /\ UNCHANGED dataset
       ELSE /\ dataset' = Append(dataset, data)
            /\ running' = (running \ {h}) \cup {[h EXCEPT !.pc = "await"]}
    /\ UNCHANGED <<work, config, phase, queue, saved, seenUrls, seenOrder, capturedJobs, jobUrls,
                   detailUrls, listPages, lastList, failed, exitStatus>>

\* After the await: saved++.
HybridDetailResume(h) ==
    /\ variant = "hybrid" /\ phase = "detail" /\ h.pc = "await"
    /\ saved' = saved + 1
    /\ running' = running \ {h}
    /\ UNCHANGED <<work, config, phase, queue, seenUrls, seenOrder, capturedJobs, jobUrls, dataset,
                   detailUrls, listPages, lastList, failed, exitStatus>>

\* detailCrawler.run() resolves; main logs and exits.
HybridFinish ==
    /\ variant = "hybrid" /\ phase = "detail" /\ queue = <<>> /\ running = {}
    /\ phase' = "exited"
    /\ exitStatus' = "succeeded"
    /\ UNCHANGED <<work, config, queue, running, saved, seenUrls, seenOrder, capturedJobs, jobUrls,
                   dataset, detailUrls, listPages, lastList, failed>>

\* -------------------------------------------------------------- api variant
\* A job object found in an intercepted JSON response: pushed to capturedJobs
\* unless a captured job has its url.  The listener is on the open page.
ApiItem(u) == Item(u, "Api title", "null", "api")

extractJobsFromJson(u) ==
    /\ variant = "api" /\ running # {}
    /\ \A k \in 1..Len(capturedJobs) : capturedJobs[k] # u
    /\ capturedJobs' = Append(capturedJobs, u)
    /\ UNCHANGED <<work, config, phase, queue, running, saved, seenUrls, seenOrder, jobUrls, dataset,
                   detailUrls, listPages, lastList, failed, exitStatus>>

\* Where the for..of over capturedJobs stands.
LoopIndex(h) == IF h.pc = "fetch" THEN 1 ELSE h.i

\* A capture loop that pushes a captured job even when seenUrls has it: C30
\* fails with it.
ApiCaptureLoop_noSeenCheck(h) ==
    LET k == LoopIndex(h)
        job == capturedJobs[k]
    IN
    /\ variant = "api" /\ h.req.label = "LIST" /\ h.pc \in {"fetch", "loop"}
    /\ k <= Len(capturedJobs) /\ saved < RESULTS_WANTED
    /\ running' = (running \ {h}) \cup {[h EXCEPT !.pc = "loop", !.i = k + 1, !.n = @ + 1]}
    /\ seenUrls' = seenUrls \cup {job}
    /\ seenOrder' = IF job \in seenUrls THEN seenOrder ELSE Append(seenOrder, job)
    /\ dataset' = Append(dataset, ApiItem(job))
    /\ saved' = saved + 1
    /\ UNCHANGED <<work, config, phase, queue, capturedJobs, jobUrls, detailUrls, listPages,
                   lastList, failed, exitStatus>>

\* One pass of the capture loop: a seen job is skipped, a new one is marked
\* seen, pushed and counted.  The handler's n records how many jobs its loop
\* has pushed.
ApiCaptureLoop(h) ==
    LET k == LoopIndex(h)
        job == capturedJobs[k]
    IN
    /\ variant = "api" /\ h.req.label = "LIST" /\ h.pc \in {"fetch", "loop"}
    /\ k <= Len(capturedJobs) /\ saved < RESULTS_WANTED
    /\ running' = (running \ {h}) \cup
                   {[h EXCEPT !.pc = "loop", !.i = k + 1,
                              !.n = IF job \in seenUrls THEN @ ELSE @ + 1]}
    /\ IF job \in seenUrls
       THEN UNCHANGED <<seenUrls, seenOrder, dataset, saved>>
       ELSE /\ seenUrls' = seenUrls \cup {job}
            /\ seenOrder' = Append(seenOrder, job)
            /\ dataset' = Append(dataset, ApiItem(job))
            /\ saved' = saved + 1
    /\ UNCHANGED <<work, config, phase, queue, capturedJobs, jobUrls, detailUrls, listPages,
                   lastList, failed, exitStatus>>

\* $('a[href*="/job-detail/"]').each: a link not in seenUrls is pushed to
\* jobLinks and added to seenUrls.
RECURSIVE jobLinks(_, _)
jobLinks(anchors, seen) ==
    IF anchors = <<>> THEN <<>>
    ELSE IF ~(Head(anchors) \in seen)
         THEN <<Head(anchors)>> \o jobLinks(Tail(anchors), seen \cup {Head(anchors)})
         ELSE jobLinks(Tail(anchors), seen)

\* if (saved < RESULTS_WANTED && pageNo < MAX_PAGES - 1 && jobLinks.length > 0)
ApiNextPage(pageNo, hadLinks, savedNow) ==
    savedNow < RESULTS_WANTED /\ pageNo < MAX_PAGES - 1 /\ hadLinks

\* jobLinks.slice(0, Math.min(remaining, 50))
toEnqueue(links, savedNow) ==
    JsSlice(links, Min(RESULTS_WANTED - savedNow, DetailSliceLimit))

\* jobLinks.slice(0, remaining)
toPush(links, savedNow) == JsSlice(links, RESULTS_WANTED - savedNow)

\* LIST once the capture loop is over (or was not entered): the buffer is
\* cleared, the links are read, detail pages are enqueued or URLs pushed, and
\* the next page is enqueued.
ApiList(h, anchors) ==
    LET links == jobLinks(anchors, seenUrls)
        had == Len(links) > 0
        taken == IF collectDetails THEN toEnqueue(links, saved) ELSE toPush(links, saved)
        savedNow == IF collectDetails THEN saved ELSE saved + Len(taken)
    IN
    /\ variant = "api" /\ h.req.label = "LIST"
    /\ h.pc \in {"fetch", "loop"}
    /\ LoopIndex(h) > Len(capturedJobs) \/ saved >= RESULTS_WANTED
    /\ capturedJobs' = <<>>
    /\ seenUrls' = seenUrls \cup Range(links)
    /\ seenOrder' = seenOrder \o FirstSeen(anchors, seenUrls)
    /\ detailUrls' = detailUrls \o taken
    /\ IF collectDetails
       THEN /\ queue' = (queue \o [k \in 1..Len(taken) |-> DetailRequest(taken[k])])
                        \o (IF ApiNextPage(h.req.pageNo, had, savedNow)
                            THEN <<ListRequest(h.req.start, h.req.pageNo + 1, had)>>
                            ELSE <<>>)
            /\ UNCHANGED dataset
       ELSE /\ dataset' = dataset \o UrlItems(taken)
            /\ queue' = queue \o (IF ApiNextPage(h.req.pageNo, had, savedNow)
                                  THEN <<ListRequest(h.req.start, h.req.pageNo + 1, had)>>
                                  ELSE <<>>)
    /\ saved' = savedNow
    /\ lastList' = PageKind(anchors, links)
    /\ running' = running \ {h}
    /\ UNCHANGED <<work, config, phase, jobUrls, listPages, failed, exitStatus>>

\* DETAIL: with maxConcurrency 1 the push and saved++ are not interleaved
\* with another handler.
ApiDetail(h, doc) ==
    LET data == DetailData(h.req.url, doc) IN
    /\ variant = "api" /\ h.pc = "fetch" /\ h.req.label = "DETAIL"
    /\ IF saved >= RESULTS_WANTED \/ ~HasTitle(data)
       THEN UNCHANGED <<dataset, saved>>
       ELSE /\ dataset' = Append(dataset, data)
            /\ saved' = saved + 1
    /\ running' = running \ {h}
    /\ UNCHANGED <<work, config, phase, queue, seenUrls, seenOrder, capturedJobs, jobUrls, detailUrls,
                   listPages, lastList, failed, exitStatus>>

\* The job a captured JSON object names: one already seen or captured, or the
\* next job no document has named.
Captured(u) ==
    LET known == seenUrls \cup Range(capturedJobs) IN
    u \in known \/ Least(Urls \ known, u)

\* --------------------------------------------------------------- run end
\* crawler.run() resolves when the queue is drained; main logs and calls
\* Actor.exit().  Failed requests do not make run() reject.
Finish ==
    /\ variant # "hybrid" /\ phase = "crawl"
    /\ queue = <<>> /\ running = {}
    /\ phase' = "exited"
    /\ exitStatus' = "succeeded"
    /\ UNCHANGED <<work, config, queue, running, saved, seenUrls, seenOrder, capturedJobs, jobUrls,
                   dataset, detailUrls, listPages, lastList, failed>>

\* The handlers in flight at position pc of a request labelled l.
At(l, pc) == {h \in running : h.req.label = l /\ h.pc = pc}

Next ==
    \/ StartFetch
    \/ \E h \in running : failedRequestHandler(h)
    \/ \E h \in At("LIST", "fetch") : variant = "cheerio" /\
            \E anchors \in ListingPages(seenUrls, Range(capturedJobs)) : CheerioList(h, anchors)
    \/ \E h \in At("LIST", "await") : CheerioListResume(h)
    \/ \E h \in At("DETAIL", "fetch"), doc \in DetailDocs : CheerioDetail(h, doc)
    \/ \E h \in At("DETAIL", "await") : CheerioDetailResume(h)
    \/ \E h \in At("LIST", "fetch") : variant = "hybrid" /\
            \E anchors \in ListingPages(seenUrls, Range(capturedJobs)) : HybridList(h, anchors)
    \/ HybridNoUrls
    \/ HybridSaveUrls
    \/ HybridStartDetails
    \/ \E h \in At("DETAIL", "fetch"), doc \in DetailDocs : HybridDetail(h, doc)
    \/ \E h \in At("DETAIL", "await") : HybridDetailResume(h)
    \/ HybridFinish
    \/ \E u \in Urls : Captured(u) /\ extractJobsFromJson(u)
    \/ \E h \in running : ApiCaptureLoop(h)
    \/ \E h \in running : variant = "api" /\ h.req.label = "LIST" /\
            \E anchors \in ListingPages(seenUrls, Range(capturedJobs)) : ApiList(h, anchors)
    \/ \E h \in At("DETAIL", "fetch"), doc \in DetailDocs : ApiDetail(h, doc)
    \/ Finish

Spec == Init /\ [][Next]_vars

\* ================================================================ claims
SumPages == LET RECURSIVE Sum(_)
                Sum(n) == IF n = 0 THEN 0 ELSE listPages[n] + Sum(n - 1)
            IN Sum(MaxStart)
Requests == Range(queue) \cup {h.req : h \in running}
DetailQueue == SelectSeq(queue, LAMBDA r : r.label = "DETAIL")
UrlRecords == {k \in 1..Len(dataset) : dataset[k].kind = "url"}
ListFailed == \E r \in failed : r.label = "LIST"

\* C1: with detail collection enabled, in every reachable state the number of
\* records pushed to the dataset is at most RESULTS_WANTED.
C1_CapWithDetails == collectDetails => Len(dataset) <= RESULTS_WANTED

\* C2: no job URL appears twice in the sequence of URLs collected or enqueued
\* for detail processing, whatever rows the listing pages repeat.
C2_NoDuplicateUrls ==
    /\ NoDuplicates(detailUrls)
    /\ NoDuplicates(jobUrls)
    /\ NoDuplicates(DetailQueue)

\* C2 witness: at least two URLs were collected, several pages were fetched
\* for one start URL, and the last page handled held only rows seen before.
C2_Witness ==
    /\ lastList = "seen"
    /\ Len(detailUrls) >= 2
    /\ \E s \in 1..MaxStart : listPages[s] >= 2

\* C3: for each start URL at most MAX_PAGES listing pages are fetched, and
\* every further listing page was enqueued by a page that yielded new links.
C3_PagesPerStart ==
    /\ \A s \in 1..MaxStart : listPages[s] <= MAX_PAGES
    /\ \A r \in Requests : r.label = "LIST" => r.parentNew

\* C3 witness: the run is over with no failed fetch and fewer URLs than the
\* target; one start URL used all its MAX_PAGES >= 2 pages, another stopped
\* before that, on a page without new links.
C3_Witness ==
    /\ phase = "exited" /\ failed = {} /\ Len(detailUrls) < RESULTS_WANTED
    /\ MAX_PAGES >= 2 /\ lastList \in {"empty", "seen"}
    /\ \E s, t \in 1..initial : listPages[s] = MAX_PAGES /\ listPages[t] < MAX_PAGES

\* C4: the total number of listing pages processed in a run is at most
\* MAX_PAGES, for any number of start URLs.
C4_TotalPages == SumPages <= MAX_PAGES

\* C5: with detail collection disabled, the number of URL records pushed to
\* the dataset is at most RESULTS_WANTED.
C5_CapUrlOnly == ~collectDetails => Cardinality(UrlRecords) <= RESULTS_WANTED

\* C6: every record emitted by a detail handler has a title.
C6_DetailHasTitle ==
    \A k \in 1..Len(dataset) : dataset[k].kind = "detail" => dataset[k].title # "null"

\* C7: no record handed to the dataset has a key whose value is null.
C7_NoNullField ==
    \A k \in 1..Len(dataset) : \A f \in {"title", "company"} : dataset[k][f] # "null"

\* C8: when the run ends under the cap, every detail URL whose fetch failed
\* has a record in the dataset all the same.
C8_FailedDetailEmitted ==
    (phase = "exited" /\ Len(dataset) < RESULTS_WANTED) =>
        \A r \in failed : r.label = "DETAIL" =>
            \E k \in 1..Len(dataset) : dataset[k].url = r.url

\* C9: a run whose first listing pages could not be fetched emits no record
\* and ends reporting an error.
C9_FirstListFailureReported ==
    (phase = "exited" /\ \A s \in 1..initial : ListRequest(s, FirstPage, TRUE) \in failed)
        => (dataset = <<>> /\ exitStatus = "failed")

\* C10: a run that ends with fewer than RESULTS_WANTED records ends because
\* the last listing page handled yielded no new link, or because MAX_PAGES
\* listing pages were fetched for a start URL (or a listing fetch failed).
C10_NoEarlyStop ==
    (phase = "exited" /\ Len(dataset) < RESULTS_WANTED) =>
        \/ lastList # "new"
        \/ \E s \in 1..initial : listPages[s] >= MAX_PAGES
        \/ ListFailed

\* Where u stands in s (0 when it does not occur).
Pos(s, u) == IF \E i \in 1..Len(s) : s[i] = u
             THEN CHOOSE i \in 1..Len(s) : s[i] = u
             ELSE 0
\* The entries of a occur in s, and in the order they have in a.
InOrder(a, s) ==
    /\ \A i \in 1..Len(a) : Pos(s, a[i]) > 0
    /\ \A i, j \in 1..Len(a) : i < j => Pos(s, a[i]) < Pos(s, a[j])
QueuedUrls == [k \in 1..Len(DetailQueue) |-> DetailQueue[k].url]

C12_UrlOnlyMode ==
    ~collectDetails =>
        /\ \A r \in Requests \cup failed : r.label # "DETAIL"
        /\ \A k \in 1..Len(dataset) :
               /\ dataset[k].kind # "detail"
               /\ dataset[k].kind = "url" =>
                      dataset[k].title = "absent" /\ dataset[k].company = "absent"

\* C12 witness: a URL-only run is over, it read two pages of a start URL and
\* pushed two URL records.
C12_Witness ==
    /\ ~collectDetails /\ phase = "exited"
    /\ \E s \in 1..initial : listPages[s] = 2
    /\ Cardinality(UrlRecords) = 2

\* Every start URL's first listing page was fetched and handled, and no
\* document of the run named a job.
NoRows ==
    /\ phase = "exited" /\ failed = {}
    /\ \A s \in 1..initial : listPages[s] = 1
    /\ lastList = "empty" /\ seenOrder = <<>>

\* C13: a run whose first listing page is fetched and yields no job row
\* enqueues no detail page, pushes no record and ends normally.
C13_NoRowsEndsNormally ==
    NoRows =>
        /\ detailUrls = <<>> /\ dataset = <<>>
        /\ exitStatus = "succeeded"

\* C13 witness: such a run of the hybrid program with two start URLs, which ends
\* through the jobUrls.length === 0 exit.
C13_Witness == NoRows /\ variant = "hybrid" /\ initial = 2

\* The job URLs accepted for output so far: those enqueued for a detail page
\* or pushed as URL-only items, and the jobs the api capture loop pushed.
Accepted ==
    Len(detailUrls) + Cardinality({k \in 1..Len(dataset) : dataset[k].kind = "api"})

\* The listing requests waiting in the queue.
ListQueue == SelectSeq(queue, LAMBDA r : r.label = "LIST")

\* C19: once the number of accepted job URLs has reached RESULTS_WANTED, no
\* step starts the fetch of a listing page or adds a listing request to the
\* queue.
C19_NoListingAfterTarget ==
    [][Accepted >= RESULTS_WANTED =>
          /\ listPages' = listPages
          /\ Len(ListQueue') <= Len(ListQueue)]_vars

\* The detail pages whose fetch is under way: the crawler has taken the
\* request and the handler has not yet run.
DetailFetches == {h \in running : h.req.label = "DETAIL" /\ h.pc = "fetch"}

\* C20: no step starts the fetch of a detail page while saved is already at
\* least RESULTS_WANTED.
C20_CapBeforeDetailFetch ==
    [][saved >= RESULTS_WANTED => DetailFetches' \subseteq DetailFetches]_vars

\* What a state keeps of a detail fetch that has started: the handler in
\* flight, the failed request, or the record it pushed.
DetailStarted ==
    \/ \E h \in running : h.req.label = "DETAIL"
    \/ \E r \in failed : r.label = "DETAIL"
    \/ \E k \in 1..Len(dataset) : dataset[k].kind = "detail"

\* A step in which the requestHandler of a fetched listing page runs.
ListHandled ==
    \E h \in running :
        /\ h.req.label = "LIST" /\ h.pc = "fetch"
        /\ h \notin running' /\ h.req \notin failed'

\* C21: after a detail fetch has started no listing page is processed and no
\* URL is added to the dedup set.
C21_UrlsFixedBeforeDetails ==
    [][DetailStarted => (seenUrls' = seenUrls /\ ~ListHandled)]_vars

\* The last page index the page cap allows.
LastPage == FirstPage + MAX_PAGES - 1

\* A step in which the handler h of a listing page comes to its end.
ListDone(h) ==
    /\ h \in running /\ h.req.label = "LIST"
    /\ \A g \in running' : g.req # h.req
    /\ h.req \notin failed'

\* The page of h yielded a new job: a link not seen before, or a captured job
\* its loop pushed.
YieldedNew(h) == h.hadLinks \/ h.n > 0 \/ seenUrls' # seenUrls

\* C22: when the handler of a listing page ends, the page yielded a new job,
\* saved is below RESULTS_WANTED and the page index is below the last allowed
\* one, the next listing page of that start URL is in the queue.
C22_PaginatesWhileNew ==
    [][\A h \in running :
          (ListDone(h) /\ YieldedNew(h) /\ saved' < RESULTS_WANTED
              /\ h.req.pageNo < LastPage)
          => \E k \in 1..Len(queue') :
                 /\ queue'[k].label = "LIST" /\ queue'[k].start = h.req.start
                 /\ queue'[k].pageNo = h.req.pageNo + 1]_vars

\* The page parameter of a listing request's URL: none on a start request
\* (the start URL is used as given), and on a following one
\* nextUrl.searchParams.set('page', nextPageNo), with nextPageNo the
\* request's pageNo.
PageParam(r) == IF r.pageNo = FirstPage THEN <<>> ELSE <<r.pageNo>>

\* How many listing pages of r's start URL were fetched before r.
PageIndex(r) ==
    IF \E h \in running : h.req = r
    THEN listPages[r.start] - 1
    ELSE listPages[r.start]

\* C23: the listing pages of a start URL carry consecutive zero-based
\* indices: the first has no page parameter, the k-th following one has
\* page=k.
C23_ConsecutivePages ==
    \A r \in Requests :
        r.label = "LIST" =>
            PageParam(r) = IF PageIndex(r) = 0 THEN <<>> ELSE <<PageIndex(r)>>

\* ================================================ detail handler failures
\* maxRequestRetries: 3 (the detail crawler)
MaxRequestRetries == 3

\* await Dataset.pushData(...) rejects in a DETAIL handler that has built its
\* record: the handler is past its cap check (and, in the hybrid and api
\* programs, its title check) and has not reached saved++.
PushRejects(h, doc) ==
    /\ phase \in {"crawl", "detail"}
    /\ h.req.label = "DETAIL" /\ h.pc = "fetch"
    /\ saved < RESULTS_WANTED
    /\ variant = "cheerio" \/ HasTitle(DetailData(h.req.url, doc))

\* A catch block that ends the run as failed: C24 fails with it.
ThrowCaught_abort(h, doc) ==
    /\ variant \in {"cheerio", "api"} /\ PushRejects(h, doc)
    /\ running' = running \ {h}
    /\ phase' = "exited"
    /\ exitStatus' = "failed"
    /\ UNCHANGED <<work, config, queue, saved, seenUrls, seenOrder, capturedJobs, jobUrls,
                   dataset, detailUrls, listPages, lastList, failed>>

\* catch (err) { crawlerLog.error(...) }: the cheerio and api handlers catch
\* the exception, log it and return normally.
ThrowCaught(h, doc) ==
    /\ variant \in {"cheerio", "api"} /\ PushRejects(h, doc)
    /\ running' = running \ {h}
    /\ UNCHANGED <<work, config, phase, queue, saved, seenUrls, seenOrder, capturedJobs, jobUrls,
                   dataset, detailUrls, listPages, lastList, failed, exitStatus>>

\* A crawler that reclaims the request without counting the retry: C35 fails
\* with it.
ThrowReclaimed_uncounted(h, doc) ==
    /\ variant = "hybrid" /\ PushRejects(h, doc)
    /\ queue' = Append(queue, h.req)
    /\ running' = running \ {h}
    /\ UNCHANGED <<work, config, phase, saved, seenUrls, seenOrder, capturedJobs, jobUrls,
                   dataset, detailUrls, listPages, lastList, failed, exitStatus>>

\* A detail handler that counts its record before the push has succeeded:
\* C33 fails with it.
ThrowReclaimed_counted(h, doc) ==
    /\ variant = "hybrid" /\ PushRejects(h, doc)
    /\ h.req.retryCount < MaxRequestRetries
    /\ queue' = Append(queue, [h.req EXCEPT !.retryCount = @ + 1])
    /\ running' = running \ {h}
    /\ saved' = saved + 1
    /\ UNCHANGED <<work, config, phase, seenUrls, seenOrder, capturedJobs, jobUrls,
                   dataset, detailUrls, listPages, lastList, failed, exitStatus>>

\* The hybrid detail handler has no catch: the exception reaches the crawler,
\* which puts the request back in the queue with retryCount + 1 ...
ThrowReclaimed(h, doc) ==
    /\ variant = "hybrid" /\ PushRejects(h, doc)
    /\ h.req.retryCount < MaxRequestRetries
    /\ queue' = Append(queue, [h.req EXCEPT !.retryCount = @ + 1])
    /\ running' = running \ {h}
    /\ UNCHANGED <<work, config, phase, saved, seenUrls, seenOrder, capturedJobs, jobUrls,
                   dataset, detailUrls, listPages, lastList, failed, exitStatus>>

\* ... until maxRequestRetries retries are used up; then failedRequestHandler
\* logs the request.
ThrowGivenUp(h, doc) ==
    /\ variant = "hybrid" /\ PushRejects(h, doc)
    /\ h.req.retryCount >= MaxRequestRetries
    /\ failed' = failed \cup {h.req}
    /\ running' = running \ {h}
    /\ UNCHANGED <<work, config, phase, queue, saved, seenUrls, seenOrder, capturedJobs, jobUrls,
                   dataset, detailUrls, listPages, lastList, exitStatus>>

NextFaults ==
    \/ Next
    \/ \E h \in running, doc \in DetailDocs : ThrowCaught(h, doc)
    \/ \E h \in running, doc \in DetailDocs : ThrowReclaimed(h, doc)
    \/ \E h \in running, doc \in DetailDocs : ThrowGivenUp(h, doc)

\* The start URLs of the runs with failures.
MaxFaultStarts == 1
InitFaults == Init /\ initial <= MaxFaultStarts

SpecFaults == InitFaults /\ [][NextFaults]_vars

\* A step in which the DETAIL handler h ends without a record: its fetch
\* failed for good, its push threw, or it returned early.
DetailFails(h) ==
    /\ h \in running /\ h.req.label = "DETAIL" /\ h.pc = "fetch"
    /\ h \notin running' /\ dataset' = dataset

\* C24: a step in which a detail URL fails leaves saved and the dedup set as
\* they were, does not end the run, and keeps every other request queued or
\* in flight; and the run ends only when no request is queued or in flight.
C24_DetailFailureIsLocal ==
    [][/\ \A h \in running :
              DetailFails(h) =>
                  /\ saved' = saved /\ seenUrls' = seenUrls
                  /\ phase' = phase /\ exitStatus' = exitStatus
                  /\ running' = running \ {h}
                  /\ Len(queue') >= Len(queue)
                  /\ \A k \in 1..Len(queue) : queue'[k] = queue[k]
       /\ (phase # "exited" /\ phase' = "exited") => (queue = <<>> /\ running = {})]_vars

\* C24 witness: the run is over; one detail request was given up after its
\* retries, another detail URL was saved.
C24_Witness ==
    /\ phase = "exited"
    /\ \E r \in failed : r.label = "DETAIL" /\ r.retryCount = MaxRequestRetries
    /\ saved >= 1
    /\ \E k \in 1..Len(dataset) : \A r \in failed : dataset[k].url # r.url

\* C25: when the push of a detail record fails, the detail request is not
\* run again for that URL and saved is not incremented.
C25_PushNotRetried ==
    [][\A h \in running :
          DetailFails(h) =>
              /\ saved' = saved
              /\ \A k \in 1..Len(queue') : queue'[k].url # h.req.url]_vars

\* ------------------------------------------------------- retried fetches
\* The navigation to a detail page fails in the api program's crawler with
\* retries left: the crawler puts the request back in the queue with
\* retryCount + 1.  (Every other failing fetch is followed from the point
\* where its retries are used up, failedRequestHandler; its handler has not
\* run before that.)
FetchRetried(h) ==
    /\ variant = "api" /\ h.req.label = "DETAIL" /\ h.pc = "fetch"
    /\ h.req.retryCount < MaxRequestRetries
    /\ queue' = Append(queue, [h.req EXCEPT !.retryCount = @ + 1])
    /\ running' = running \ {h}
    /\ UNCHANGED <<work, config, phase, saved, seenUrls, seenOrder, capturedJobs, jobUrls,
                   dataset, detailUrls, listPages, lastList, failed, exitStatus>>

NextRetries ==
    \/ NextFaults
    \/ \E h \in running : FetchRetried(h)

SpecRetries == InitFaults /\ [][NextRetries]_vars

\* The records of the dataset that carry job URL u.
RecordsOf(u) == {k \in 1..Len(dataset) : dataset[k].url = u}

\* C30: in the api program a job URL has at most one record; a job pushed
\* from a captured response is not in the detail queue, and a URL enqueued as
\* a detail page has no record from a captured response.
C30_OneRecordPerUrl ==
    variant = "api" =>
        /\ \A u \in Urls : Cardinality(RecordsOf(u)) <= 1
        /\ \A k \in 1..Len(dataset) :
               dataset[k].kind = "api" =>
                   /\ \A r \in Requests : r.url # dataset[k].url
                   /\ \A j \in 1..Len(detailUrls) : detailUrls[j] # dataset[k].url

\* C30 witness: a run of the api program in which a captured job was pushed
\* and the fetch of a detail page is being retried while a captured response
\* names that page's URL.
C30_Witness ==
    /\ variant = "api" /\ collectDetails
    /\ \E k \in 1..Len(dataset) : dataset[k].kind = "api"
    /\ \E h \in running :
           /\ h.req.label = "DETAIL" /\ h.pc = "fetch" /\ h.req.retryCount > 0
           /\ h.req.url \in Range(capturedJobs)

\* ------------------------------------------------ seen URLs and their fate
\* The URLs that have a record in the dataset.
Emitted == {dataset[k].url : k \in 1..Len(dataset)}

\* The URLs handed to the crawler as DETAIL requests so far: the cheerio and
\* api programs enqueue from the LIST handler (detailUrls records what they
\* took), the hybrid program enqueues urlsToFetch when phase 2 starts.
Enqueued ==
    IF variant = "hybrid"
    THEN IF collectDetails /\ (phase = "detail" \/ (phase = "exited" /\ jobUrls # <<>>))
         THEN Range(urlsToFetch)
         ELSE {}
    ELSE IF collectDetails THEN Range(detailUrls) ELSE {}

\* C31: when the run is over, every URL of the seen set was emitted as a
\* record or enqueued for a detail fetch.
C31_SeenUrlsProcessed ==
    phase = "exited" => seenUrls \subseteq (Emitted \cup Enqueued)

\* ------------------------------------------------ the capture buffer
\* C32: when the run is over no captured job waits in the buffer: every
\* captured job was pushed, or skipped as a duplicate or as over the cap,
\* by a capture loop.
C32_CaptureBufferDrained ==
    phase = "exited" => capturedJobs = <<>>

\* ------------------------------------------------ saved and the dataset
\* The handlers between await Dataset.pushData(...) and saved++.
Counting == {h \in running : h.req.label = "DETAIL" /\ h.pc = "await"}

\* C33: with detail collection enabled, saved is the number of records the
\* dataset holds less those whose handler has yet to count them (so the two
\* are equal when no handler is between its push and its saved++); saved
\* never decreases, and it grows by one only in a step that appends a record
\* or that ends a handler which had pushed.
C33_SavedCountsRecords ==
    /\ [](collectDetails => saved + Cardinality(Counting) = Len(dataset))
    /\ [][collectDetails =>
             /\ saved' >= saved
             /\ saved' # saved =>
                    /\ saved' = saved + 1
                    /\ \/ Len(dataset') = Len(dataset) + 1
                       \/ \E h \in Counting : h \notin running']_vars

\* C33 witness: one record was pushed and counted, the push of another was
\* rejected and its request waits to be retried, and no handler is running.
C33_Witness ==
    /\ collectDetails /\ running = {}
    /\ saved = 1 /\ Len(dataset) = 1
    /\ \E k \in 1..Len(queue) :
           /\ queue[k].label = "DETAIL" /\ queue[k].retryCount > 0
           /\ queue[k].url # dataset[1].url

\* ------------------------------------------- retried listing requests
\* maxRequestRetries of the hybrid program's listingCrawler.
ListingRequestRetries == 2

\* What the crawler does with a LIST request whose attempt ended in an
\* exception: back to the queue with retryCount + 1 while retries are left.
Reclaimed(q, req) ==
    IF req.retryCount < ListingRequestRetries
    THEN Append(q, [req EXCEPT !.retryCount = @ + 1])
    ELSE q

\* The navigation of a hybrid LIST request fails (or the handler throws
\* before it has read the links): nothing was written.
HybridListNotLoaded(h) ==
    /\ variant = "hybrid" /\ phase = "crawl" /\ h.pc = "fetch"
    /\ h.req.retryCount < ListingRequestRetries
    /\ queue' = Reclaimed(queue, h.req)
    /\ running' = running \ {h}
    /\ UNCHANGED <<work, config, phase, saved, seenUrls, seenOrder, capturedJobs, jobUrls,
                   dataset, detailUrls, listPages, lastList, failed, exitStatus>>

\* The hybrid LIST handler reads the links, filters them through seenUrls,
\* pushes them to jobUrls, decides to enqueue the next page, and
\* await listingCrawler.addRequests(...) rejects: the handler has no catch,
\* so the crawler reclaims the request.  arg, fn and res keep what a retry of
\* the request needs to be compared with: the page the attempt read and the
\* decision it had made.
HybridListThrows(h, anchors) ==
    LET unique == uniqueLinks(anchors, seenUrls)
        had == Len(unique) > 0
        all == jobUrls \o unique
    IN
    /\ variant = "hybrid" /\ phase = "crawl" /\ h.pc = "fetch"
    /\ HybridNextPage(h.req.pageNo, had, Len(all))
    /\ seenUrls' = seenUrls \cup Range(unique)
    /\ seenOrder' = seenOrder \o FirstSeen(anchors, seenUrls)
    /\ jobUrls' = all
    /\ detailUrls' = detailUrls \o unique
    /\ lastList' = PageKind(anchors, unique)
    /\ queue' = Reclaimed(queue, h.req)
    /\ failed' = IF h.req.retryCount < ListingRequestRetries THEN failed
                 ELSE failed \cup {h.req}
    /\ running' = running \ {h}
    /\ arg' = anchors
    /\ fn' = "thrown"
    /\ res' = [req |-> [h.req EXCEPT !.retryCount = @ + 1],
                single |-> HybridNextPage(h.req.pageNo, had, Len(all))]
    /\ UNCHANGED <<config, phase, saved, capturedJobs, dataset, listPages, exitStatus>>

\* The retry of that request finds the same page and runs to its end.
HybridListAgain(h) ==
    LET unique == uniqueLinks(arg, seenUrls)
        had == Len(unique) > 0
        all == jobUrls \o unique
        next == HybridNextPage(h.req.pageNo, had, Len(all))
    IN
    /\ variant = "hybrid" /\ phase = "crawl" /\ h.pc = "fetch"
    /\ fn = "thrown" /\ h.req = res.req
    /\ seenUrls' = seenUrls \cup Range(unique)
    /\ seenOrder' = seenOrder \o FirstSeen(arg, seenUrls)
    /\ jobUrls' = all
    /\ detailUrls' = detailUrls \o unique
    /\ lastList' = PageKind(arg, unique)
    /\ queue' = IF next
                THEN Append(queue, ListRequest(h.req.start, h.req.pageNo + 1, had))
                ELSE queue
    /\ running' = running \ {h}
    /\ fn' = "retried"
    /\ res' = [req |-> res.req, single |-> res.single, again |-> next]
    /\ UNCHANGED <<arg, config, phase, saved, capturedJobs, dataset, listPages, failed,
                   exitStatus>>

NextListRetry ==
    \/ Next
    \/ \E h \in At("LIST", "fetch") : HybridListNotLoaded(h)
    \/ \E h \in At("LIST", "fetch") :
           \E anchors \in ListingPages(seenUrls, Range(capturedJobs)) : HybridListThrows(h, anchors)
    \/ \E h \in At("LIST", "fetch") : HybridListAgain(h)

SpecListRetry == InitFaults /\ [][NextListRetry]_vars

\* C34: once a hybrid LIST request was run again for the page of its failed
\* attempt, jobUrls holds no URL twice and the retry decided about the next
\* page as one execution that did not fail decides.
C34_ListingRetryIdempotent ==
    fn = "retried" => (NoDuplicates(jobUrls) /\ res.again = res.single)

\* ---------------------------------------------------------- termination
\* The crawler, the handlers and main keep taking their next step: a request
\* in the queue is taken when a slot is free, a page that was requested
\* arrives or fails, a handler that awaits is resumed or sees its push
\* rejected, and main goes on when run() has resolved.
SpecFair == InitFaults /\ [][NextFaults]_vars /\ WF_vars(NextFaults)

\* C35: every run reaches its final state, with the queue drained and no
\* request in flight.
C35_RunTerminates ==
    <>(phase = "exited" /\ queue = <<>> /\ running = {})

\* C35 witness: a run that is over after two listing pages, a request that
\* failed for good and a saved detail record.
C35_Witness ==
    /\ phase = "exited" /\ queue = <<>> /\ running = {}
    /\ SumPages >= 2 /\ failed # {} /\ collectDetails /\ saved >= 1

\* ==================================================== JSON-LD extraction
\* A detail document, by its <script type="application/ld+json"> blocks: each
\* block's text is valid JSON or not, and parses to one object or an array of
\* objects, each with an @type that is a string or a list of strings.
MaxBlocks == 2
MaxItems == 2

TypeTags == { [isArray |-> FALSE, tags |-> <<"JobPosting">>],
              [isArray |-> TRUE, tags |-> <<"Thing", "JobPosting">>],
              [isArray |-> FALSE, tags |-> <<"Organization">>] }
Blocks == [parses : BOOLEAN, items : SeqsUpTo(TypeTags, MaxItems)]
Documents == SeqsUpTo(Blocks, MaxBlocks)

\* The crawl's variables while a single function is examined: no run.
Parked ==
    /\ variant = "api" /\ RESULTS_WANTED = 1 /\ MAX_PAGES = 1
    /\ collectDetails = TRUE /\ initial = 1
    /\ phase = "exited" /\ queue = <<>> /\ running = {}
    /\ saved = 0 /\ seenUrls = {} /\ seenOrder = <<>>
    /\ capturedJobs = <<>> /\ jobUrls = <<>>
    /\ dataset = <<>> /\ detailUrls = <<>>
    /\ listPages = [s \in 1..MaxStart |-> 0]
    /\ lastList = "none" /\ failed = {} /\ exitStatus = "running"

\* No candidate: the extractor's null.
NoPosting == <<0, 0>>

\* t === 'JobPosting'
TypeEquals(t) == ~t.isArray /\ t.tags = <<"JobPosting">>
\* Array.isArray(t) && t.includes('JobPosting')
TypeIncludes(t) == t.isArray /\ \E k \in 1..Len(t.tags) : t.tags[k] = "JobPosting"

\* if (t === 'JobPosting' || (Array.isArray(t) && t.includes('JobPosting')))
IsJobPosting(t) == TypeEquals(t) \/ TypeIncludes(t)

\* for (const e of arr): the index of the first element the test accepts, 0
\* when there is none; passes[i] is the test's verdict on the i-th element.
FirstItem(passes) ==
    IF \E i \in 1..Len(passes) : passes[i]
    THEN CHOOSE i \in 1..Len(passes) : passes[i] /\ \A j \in 1..(i - 1) : ~passes[j]
    ELSE 0

\* An extractor that gives up at the first block that does not parse: C28
\* fails with it.
RECURSIVE extractFromJsonLd_stops(_, _)
extractFromJsonLd_stops(d, b) ==
    IF b > Len(d) \/ ~d[b].parses THEN NoPosting
    ELSE LET i == FirstItem([k \in 1..Len(d[b].items) |-> IsJobPosting(d[b].items[k])]) IN
         IF i > 0 THEN <<b, i>>
         ELSE extractFromJsonLd_stops(d, b + 1)

\* Cheerio program: blocks in order, a block that does not parse is skipped,
\* the first element whose type equals or includes JobPosting is returned.
RECURSIVE extractFromJsonLd(_, _)
extractFromJsonLd(d, b) ==
    IF b > Len(d) THEN NoPosting
    ELSE LET i == FirstItem([k \in 1..Len(d[b].items) |-> IsJobPosting(d[b].items[k])]) IN
         IF d[b].parses /\ i > 0 THEN <<b, i>>
         ELSE extractFromJsonLd(d, b + 1)

\* Hybrid and api programs: .each over every block; a block that parses and
\* holds an item with @type === 'JobPosting' assigns jsonLd (and breaks out
\* of that block's loop only), so a later block overwrites an earlier one.
RECURSIVE eachJsonLd(_, _, _)
eachJsonLd(d, b, jsonLd) ==
    IF b > Len(d) THEN jsonLd
    ELSE LET i == FirstItem([k \in 1..Len(d[b].items) |-> TypeEquals(d[b].items[k])]) IN
         eachJsonLd(d, b + 1, IF d[b].parses /\ i > 0 THEN <<b, i>> ELSE jsonLd)

JsonLdInit == Parked /\ arg \in Documents /\ fn = "none" /\ res = NoPosting

CheerioExtract ==
    /\ fn = "none"
    /\ fn' = "extractFromJsonLd"
    /\ res' = extractFromJsonLd(arg, 1)
    /\ UNCHANGED <<crawl, arg>>

HybridExtract ==
    /\ fn = "none"
    /\ fn' = "detailCrawler"
    /\ res' = eachJsonLd(arg, 1, NoPosting)
    /\ UNCHANGED <<crawl, arg>>

ApiExtract ==
    /\ fn = "none"
    /\ fn' = "requestHandler"
    /\ res' = eachJsonLd(arg, 1, NoPosting)
    /\ UNCHANGED <<crawl, arg>>

JsonLdNext == CheerioExtract \/ HybridExtract \/ ApiExtract

SpecJsonLd == JsonLdInit /\ [][JsonLdNext]_vars

\* The candidates of a document that are a JobPosting, by position.
Postings(d) ==
    {p \in (1..Len(d)) \X (1..MaxItems) :
        /\ d[p[1]].parses /\ p[2] <= Len(d[p[1]].items)
        /\ LET t == d[p[1]].items[p[2]] IN TypeEquals(t) \/ TypeIncludes(t)}
Before(p, q) == p[1] < q[1] \/ (p[1] = q[1] /\ p[2] <= q[2])

\* C14: the extractor selects the first candidate in document order whose
\* @type equals JobPosting or is a list containing it, and none when no
\* candidate matches.
C14_FirstJobPosting ==
    fn # "none" =>
        IF Postings(arg) = {} THEN res = NoPosting
        ELSE res \in Postings(arg) /\ \A q \in Postings(arg) : Before(res, q)

\* The blocks of a document that parse, in order.
Parsing(d) == SelectSeq(d, LAMBDA blk : blk.parses)

\* How many of the first b blocks of d parse.
Rank(d, b) == Cardinality({k \in 1..b : d[k].parses})

\* What the program that ran (fn) extracts from document d.
Extracted(d) ==
    IF fn = "extractFromJsonLd" THEN extractFromJsonLd(d, 1)
    ELSE eachJsonLd(d, 1, NoPosting)

\* C28: a block that does not parse is skipped and does not stop the scan:
\* the extractor selects from the document what it selects from the
\* document without its unparsable blocks, and selects a posting whenever
\* a block that parses holds an item of @type JobPosting.
C28_UnparsableBlockSkipped ==
    fn # "none" =>
        /\ IF res = NoPosting THEN Extracted(Parsing(arg)) = NoPosting
           ELSE /\ arg[res[1]].parses
                /\ Extracted(Parsing(arg)) = <<Rank(arg, res[1]), res[2]>>
        /\ (\E b \in 1..Len(arg) :
               arg[b].parses /\ \E k \in 1..Len(arg[b].items) : TypeEquals(arg[b].items[k]))
           => res # NoPosting

\* C28 witness: a document whose first block does not parse and whose second
\* block holds the posting that is selected.
C28_Witness ==
    /\ fn # "none" /\ Len(arg) = 2 /\ ~arg[1].parses
    /\ res = <<2, 1>>

\* ================================================== description of a job
\* A detail page with one JSON-LD block {"@type": "JobPosting",
\* "description": "..."}: the characters written between the quotes of the
\* description, and whether the page body has description sections.
MaxChars == 3

\* A letter, a raw line feed, a backslash, the letter n, a double quote.
Chars == {"a", "LF", "\\", "n", "q"}
Pages == [text : SeqsUpTo(Chars, MaxChars), sections : BOOLEAN]

\* JSON.parse on the string literal: a raw control character, a quote that is
\* not escaped, an escape other than \\ \n \" and a backslash left pending at
\* the end are syntax errors.
RECURSIVE JsonStringParses(_, _)
JsonStringParses(cs, escaped) ==
    IF cs = <<>> THEN ~escaped
    ELSE LET c == Head(cs) IN
         IF escaped THEN c \in {"\\", "n", "q"} /\ JsonStringParses(Tail(cs), FALSE)
         ELSE CASE c = "\\" -> JsonStringParses(Tail(cs), TRUE)
                [] c \in {"LF", "q"} -> FALSE
                [] OTHER -> JsonStringParses(Tail(cs), FALSE)

\* The value of a string literal that parses: \n is a line feed, \\ a
\* backslash, \" a quote.
RECURSIVE JsonStringValue(_)
JsonStringValue(cs) ==
    IF cs = <<>> THEN <<>>
    ELSE IF Head(cs) = "\\"
         THEN <<(IF cs[2] = "n" THEN "LF" ELSE cs[2])>> \o JsonStringValue(Tail(Tail(cs)))
         ELSE <<Head(cs)>> \o JsonStringValue(Tail(cs))

\* description_html, by where it comes from.
FromPosting(text) == [from |-> "posting", text |-> text]
FromPage == [from |-> "page", text |-> <<>>]
NoDescription(empty) == [from |-> empty, text |-> <<>>]

\* jsonLd?.description of the page: the block is skipped when JSON.parse
\* throws (try { ... } catch { }), and an empty description is falsy.
PostingDescription(page) ==
    IF JsonStringParses(page.text, FALSE) /\ JsonStringValue(page.text) # <<>>
    THEN FromPosting(JsonStringValue(page.text))
    ELSE NoDescription("null")

\* Cheerio program: if (!data.description_html) the description sections of
\* the page, joined, || null.
CheerioDescriptionHtml(page) ==
    IF PostingDescription(page).from = "posting" THEN PostingDescription(page)
    ELSE IF page.sections THEN FromPage ELSE NoDescription("null")

\* Hybrid and api programs: let description = jsonLd?.description || ''; if
\* (!description) the page's sections or body text, which may be ''.
DescriptionHtml(page) ==
    IF PostingDescription(page).from = "posting" THEN PostingDescription(page)
    ELSE IF page.sections THEN FromPage ELSE NoDescription("empty")

DescriptionInit == Parked /\ arg \in Pages /\ fn = "none" /\ res = NoDescription("null")

CheerioDescription ==
    /\ fn = "none"
    /\ fn' = "CheerioCrawler"
    /\ res' = CheerioDescriptionHtml(arg)
    /\ UNCHANGED <<crawl, arg>>

HybridDescription ==
    /\ fn = "none"
    /\ fn' = "detailCrawler"
    /\ res' = DescriptionHtml(arg)
    /\ UNCHANGED <<crawl, arg>>

ApiDescription ==
    /\ fn = "none"
    /\ fn' = "requestHandler"
    /\ res' = DescriptionHtml(arg)
    /\ UNCHANGED <<crawl, arg>>

DescriptionNext == CheerioDescription \/ HybridDescription \/ ApiDescription

SpecDescription == DescriptionInit /\ [][DescriptionNext]_vars

\* The text with every raw line feed written as the escape \n: what the
\* sanitization the claim speaks of makes of it.
RECURSIVE EscapeNewlines(_)
EscapeNewlines(cs) ==
    IF cs = <<>> THEN <<>>
    ELSE (IF Head(cs) = "LF" THEN <<"\\", "n">> ELSE <<Head(cs)>>) \o EscapeNewlines(Tail(cs))

\* The block's first parse fails for a raw line feed inside the string, and
\* for nothing else.
RawNewlineOnly(cs) ==
    /\ \E k \in 1..Len(cs) : cs[k] = "LF"
    /\ ~JsonStringParses(cs, FALSE)
    /\ JsonStringParses(EscapeNewlines(cs), FALSE)

\* C15: when the block's first parse fails for a raw line feed inside a
\* string, the record's description_html is the structured posting's
\* description (the value the sanitized text parses to).
C15_RecoveredDescription ==
    (fn # "none" /\ RawNewlineOnly(arg.text)) =>
        res = FromPosting(JsonStringValue(EscapeNewlines(arg.text)))

\* ======================================================== salary of a job
\* A job as its listing row and its detail page show it: the salary text of
\* the row, the baseSalary of the JSON-LD posting, and the salary text of the
\* detail page.  A text is a sequence of words, <<>> the empty text.
SalaryTexts == {<<>>, <<"A">>, <<"B">>}
BaseSalaries ==
    {[kind |-> "absent", v |-> <<>>, currency |-> <<>>],
     [kind |-> "object", v |-> <<>>, currency |-> <<>>]}
    \cup [kind : {"string"}, v : {<<"A">>, <<"B">>}, currency : {<<>>}]
    \cup [kind : {"value"}, v : {<<"A">>, <<"B">>}, currency : {<<>>, <<"USD">>}]
Jobs == [row : SalaryTexts, baseSalary : BaseSalaries, page : SalaryTexts]

\* The record's salary: null, or a text.
NullSalary == [null |-> TRUE, text |-> <<>>]
SalaryOf(text) == [null |-> FALSE, text |-> text]

\* $('div.job-salary').text().trim() || null
PageSalary(job) == IF job.page = <<>> THEN NullSalary ELSE SalaryOf(job.page)

\* Cheerio program: salary: e.baseSalary?.value || null, then the page's
\* text when that is empty.  A baseSalary that is a string has no value.
CheerioSalary(job) ==
    IF job.baseSalary.kind = "value" THEN SalaryOf(job.baseSalary.v)
    ELSE PageSalary(job)

\* Hybrid and api programs: a string baseSalary as it is, a scalar value as
\* `${val} ${bs.currency || ''}`, then the page's text when salary is empty.
Salary(job) ==
    CASE job.baseSalary.kind = "string" -> SalaryOf(job.baseSalary.v)
      [] job.baseSalary.kind = "value" ->
             SalaryOf(job.baseSalary.v \o <<" ">> \o job.baseSalary.currency)
      [] OTHER -> PageSalary(job)

SalaryInit == Parked /\ arg \in Jobs /\ fn = "none" /\ res = NullSalary

CheerioDetailSalary ==
    /\ fn = "none"
    /\ fn' = "CheerioCrawler"
    /\ res' = CheerioSalary(arg)
    /\ UNCHANGED <<crawl, arg>>

HybridDetailSalary ==
    /\ fn = "none"
    /\ fn' = "detailCrawler"
    /\ res' = Salary(arg)
    /\ UNCHANGED <<crawl, arg>>

ApiDetailSalary ==
    /\ fn = "none"
    /\ fn' = "requestHandler"
    /\ res' = Salary(arg)
    /\ UNCHANGED <<crawl, arg>>

SalaryNext == CheerioDetailSalary \/ HybridDetailSalary \/ ApiDetailSalary

SpecSalary == SalaryInit /\ [][SalaryNext]_vars

\* C16: when the listing row's salary and the posting's base salary are both
\* non-empty and differ, the record's salary is the row's.
C16_StubSalaryWins ==
    (/\ fn # "none"
     /\ arg.row # <<>>
     /\ arg.baseSalary.kind \in {"string", "value"}
     /\ arg.baseSalary.v # arg.row)
        => res = SalaryOf(arg.row)

\* ============================================ control-character sanitizer
\* The sanitizer of the structured-postings extractor (spec section 4.3): it
\* walks the raw text of a block with two flags, inside-a-quoted-string and
\* previous-character-was-an-escape, and rewrites a raw control character
\* met inside a string, not right after an escape, as its two-character
\* escape.  Texts are over a quote, a letter, a backslash, a raw line feed
\* and a raw tab.
MaxText == 4

TextChars == {"q", "a", "\\", "LF", "TAB"}
ControlChars == {"LF", "TAB"}
Texts == SeqsUpTo(TextChars, MaxText)

\* The escape a control character is rewritten to.
EscapeOf(c) == <<"\\", (IF c = "LF" THEN "n" ELSE "t")>>

\* A sanitizer that is not string-aware, rewriting control characters
\* wherever they stand: C17 fails with it.
RECURSIVE Sanitize_anywhere(_, _, _)
Sanitize_anywhere(cs, inString, escaped) ==
    IF cs = <<>> THEN <<>>
    ELSE LET c == Head(cs) IN
         (IF c \in ControlChars THEN EscapeOf(c) ELSE <<c>>)
             \o Sanitize_anywhere(Tail(cs), inString, escaped)

RECURSIVE Sanitize(_, _, _)
Sanitize(cs, inString, escaped) ==
    IF cs = <<>> THEN <<>>
    ELSE LET c == Head(cs) IN
         CASE inString /\ ~escaped /\ c \in ControlChars ->
                  EscapeOf(c) \o Sanitize(Tail(cs), inString, escaped)
           [] escaped -> <<c>> \o Sanitize(Tail(cs), inString, FALSE)
           [] inString /\ c = "\\" -> <<c>> \o Sanitize(Tail(cs), inString, TRUE)
           [] c = "q" -> <<c>> \o Sanitize(Tail(cs), ~inString, FALSE)
           [] OTHER -> <<c>> \o Sanitize(Tail(cs), inString, FALSE)

SanitizerInit == Parked /\ arg \in Texts /\ fn = "none" /\ res = <<>>

SanitizeText ==
    /\ fn = "none"
    /\ fn' = "sanitize"
    /\ res' = Sanitize(arg, FALSE, FALSE)
    /\ UNCHANGED <<crawl, arg>>

SanitizerNext == SanitizeText

SpecSanitizer == SanitizerInit /\ [][SanitizerNext]_vars

\* Whether the character after the first k characters of cs stands inside a
\* string literal: quotes open and close a literal, except a quote that a
\* backslash inside the literal escapes.
RECURSIVE Lexed(_, _)
Lexed(cs, k) ==
    IF k = 0 THEN [inString |-> FALSE, escaped |-> FALSE]
    ELSE LET f == Lexed(cs, k - 1) IN
         CASE f.escaped -> [f EXCEPT !.escaped = FALSE]
           [] f.inString /\ cs[k] = "\\" -> [f EXCEPT !.escaped = TRUE]
           [] cs[k] = "q" -> [f EXCEPT !.inString = ~f.inString]
           [] OTHER -> f
NoRawControlInString(cs) ==
    \A k \in 1..Len(cs) : cs[k] \in ControlChars => ~Lexed(cs, k - 1).inString

\* C17: on a text in which no raw control character stands inside a string
\* literal the sanitizer returns its input, character for character.
C17_SanitizerNoOp ==
    (fn = "sanitize" /\ NoRawControlInString(arg)) => res = arg

\* C17 witness: the sanitizer was applied to a text with a string literal
\* that holds an escape, and a raw control character outside the literal.
C17_Witness ==
    /\ fn = "sanitize" /\ NoRawControlInString(arg) /\ res = arg
    /\ \E i, j, k \in 1..Len(arg) :
           /\ arg[i] \in ControlChars
           /\ arg[j] = "\\" /\ Lexed(arg, j).escaped
           /\ arg[k] = "q" /\ k > j

\* ========================================================== target count
\* The results_wanted input as Actor.getInput() gives it, and the effective
\* RESULTS_WANTED main computes from it.
MaxRaw == 3
DefaultResultsWanted == 100

\* A raw input: not set, null, a number, a string of digits, the empty
\* string, a string that is no number, NaN, Infinity.
RawNumbers == (-1)..MaxRaw
RawInputs ==
    [t : {"undefined", "null", "empty string", "text", "NaN", "Infinity"}, v : {0}]
    \cup [t : {"number", "numeric string"}, v : RawNumbers]
SavedCounts == {0, 1, MaxRaw, DefaultResultsWanted}

\* results_wanted: RESULTS_WANTED_RAW = 100 -- the default stands in for
\* undefined only.
Defaulted(raw) ==
    IF raw.t = "undefined" THEN [t |-> "number", v |-> DefaultResultsWanted] ELSE raw

\* +RESULTS_WANTED_RAW: the number, and whether Number.isFinite holds of it.
ToNumber(raw) ==
    CASE raw.t \in {"number", "numeric string"} -> [finite |-> TRUE, v |-> raw.v]
      [] raw.t \in {"null", "empty string"} -> [finite |-> TRUE, v |-> 0]
      [] OTHER -> [finite |-> FALSE, v |-> 0]

\* Number.MAX_SAFE_INTEGER (2^53 - 1), which no count of saved items reaches.
NoCap == [capped |-> FALSE, n |-> 0]
Cap(n) == [capped |-> TRUE, n |-> n]

\* A conversion that falls back to the default when the input is no finite
\* number: C18's amended statement fails with it.
ResultsWanted_defaulting(raw) ==
    LET x == ToNumber(Defaulted(raw)) IN
    IF x.finite THEN Cap(Max(1, x.v)) ELSE Cap(DefaultResultsWanted)

\* Number.isFinite(+RAW) ? Math.max(1, +RAW) : Number.MAX_SAFE_INTEGER
ResultsWanted(raw) ==
    LET x == ToNumber(Defaulted(raw)) IN
    IF x.finite THEN Cap(Max(1, x.v)) ELSE NoCap

\* if (saved >= RESULTS_WANTED) return;
CapReached(savedNow, target) == target.capped /\ savedNow >= target.n

TargetInit ==
    /\ Parked /\ arg \in [raw : RawInputs, saved : SavedCounts]
    /\ fn = "none" /\ res = [target |-> NoCap, stops |-> FALSE]

Effective(input) ==
    [target |-> ResultsWanted(input.raw),
     stops |-> CapReached(input.saved, ResultsWanted(input.raw))]

CheerioTarget ==
    /\ fn = "none"
    /\ fn' = "cheerio main"
    /\ res' = Effective(arg)
    /\ UNCHANGED <<crawl, arg>>

HybridTarget ==
    /\ fn = "none"
    /\ fn' = "hybrid main"
    /\ res' = Effective(arg)
    /\ UNCHANGED <<crawl, arg>>

ApiTarget ==
    /\ fn = "none"
    /\ fn' = "api main"
    /\ res' = Effective(arg)
    /\ UNCHANGED <<crawl, arg>>

TargetNext == CheerioTarget \/ HybridTarget \/ ApiTarget

SpecTarget == TargetInit /\ [][TargetNext]_vars

\* C18 as stated: an unset or non-numeric results_wanted gives an unbounded
\* target, and the saved-count check never stops the run.
C18_UnsetOrNonNumericNoCap ==
    (fn # "none" /\ arg.raw.t \in {"undefined", "text", "NaN"}) =>
        res.target = NoCap /\ ~res.stops

\* C18 amended: a results_wanted that converts to no finite number gives an
\* unbounded target and the saved-count check never stops the run; an unset
\* results_wanted gives the default target, 100.
C18_NonNumericNoCap ==
    fn # "none" =>
        /\ arg.raw.t \in {"text", "NaN", "Infinity"} =>
               res.target = NoCap /\ ~res.stops
        /\ arg.raw.t = "undefined" =>
               /\ res.target = Cap(DefaultResultsWanted)
               /\ res.stops <=> arg.saved >= DefaultResultsWanted

\* C18 witness: the target was computed from a string that is no number,
\* with as many items saved as the default target.
C18_Witness ==
    /\ fn # "none" /\ arg.raw.t = "text" /\ arg.saved = DefaultResultsWanted
    /\ res.target = NoCap /\ ~res.stops

\* ===================================================== effective inputs
\* results_wanted and max_pages as Actor.getInput() gives them, and the
\* RESULTS_WANTED and MAX_PAGES main computes from them.
DefaultMaxPages == 999

\* max_pages: MAX_PAGES_RAW = 999 -- the default stands in for undefined only.
DefaultedPages(raw) ==
    IF raw.t = "undefined" THEN [t |-> "number", v |-> DefaultMaxPages] ELSE raw

\* A conversion without the clamp: C36 fails with it.
MaxPages_unclamped(raw) ==
    LET x == ToNumber(DefaultedPages(raw)) IN
    IF x.finite THEN x.v ELSE DefaultMaxPages

\* Number.isFinite(+MAX_PAGES_RAW) ? Math.max(1, +MAX_PAGES_RAW) : 999
MaxPages(raw) ==
    LET x == ToNumber(DefaultedPages(raw)) IN
    IF x.finite THEN Max(1, x.v) ELSE DefaultMaxPages

InputsInit ==
    /\ Parked /\ arg \in [results_wanted : RawInputs, max_pages : RawInputs]
    /\ fn = "none" /\ res = [RESULTS_WANTED |-> NoCap, MAX_PAGES |-> DefaultMaxPages]

EffectiveInputs(input) ==
    [RESULTS_WANTED |-> ResultsWanted(input.results_wanted),
     MAX_PAGES |-> MaxPages(input.max_pages)]

CheerioInputs ==
    /\ fn = "none"
    /\ fn' = "cheerio main"
    /\ res' = EffectiveInputs(arg)
    /\ UNCHANGED <<crawl, arg>>

HybridInputs ==
    /\ fn = "none"
    /\ fn' = "hybrid main"
    /\ res' = EffectiveInputs(arg)
    /\ UNCHANGED <<crawl, arg>>

ApiInputs ==
    /\ fn = "none"
    /\ fn' = "api main"
    /\ res' = EffectiveInputs(arg)
    /\ UNCHANGED <<crawl, arg>>

InputsNext == CheerioInputs \/ HybridInputs \/ ApiInputs

SpecInputs == InputsInit /\ [][InputsNext]_vars

\* A raw input that converts to a finite number below 1.
BelowOne(raw) ==
    \/ raw.t \in {"number", "numeric string"} /\ raw.v < 1
    \/ raw.t = "null"

\* A raw input that converts to no finite number.
NonFinite(raw) == raw.t \in {"text", "NaN", "Infinity"}

\* C36: the effective RESULTS_WANTED and MAX_PAGES are at least 1 for every
\* input; a finite input below 1 gives 1, and a max_pages that is no finite
\* number gives 999.
C36_EffectiveAtLeastOne ==
    fn # "none" =>
        /\ res.RESULTS_WANTED = NoCap \/ res.RESULTS_WANTED.n >= 1
        /\ res.MAX_PAGES >= 1
        /\ BelowOne(arg.results_wanted) => res.RESULTS_WANTED = Cap(1)
        /\ BelowOne(arg.max_pages) => res.MAX_PAGES = 1
        /\ NonFinite(arg.max_pages) => res.MAX_PAGES = DefaultMaxPages

\* C36 witness: main computed its limits from a negative results_wanted and
\* a max_pages of zero.
C36_Witness ==
    /\ fn # "none"
    /\ arg.results_wanted = [t |-> "number", v |-> -1]
    /\ arg.max_pages = [t |-> "numeric string", v |-> 0]
    /\ res = [RESULTS_WANTED |-> Cap(1), MAX_PAGES |-> 1]

\* ======================================================== batched output
\* The scheduler that takes the ordered URLs in windows, collects the records
\* built in an output buffer and hands the buffer to the sink in batches.
MaxBatchUrls == 4
WindowSize == 2
BatchSize == 3

RecordKinds == {"record", "fallback"}

\* The first WindowSize URLs not yet taken.
Window(next, n) == next..Min(next + WindowSize - 1, n)

\* A completed record enters the buffer, and the buffer is handed to the
\* sink without being cleared: C26 fails with it.
Accumulate_noClear(st, rec) ==
    LET buf == Append(st.buffer, rec) IN
    IF Len(buf) >= BatchSize
    THEN [st EXCEPT !.buffer = buf, !.sink = Append(@, buf)]
    ELSE [st EXCEPT !.buffer = buf]

\* A completed record enters the buffer; a buffer that has reached the
\* threshold is flushed to the sink and cleared.
Accumulate(st, rec) ==
    LET buf == Append(st.buffer, rec) IN
    IF Len(buf) >= BatchSize
    THEN [st EXCEPT !.buffer = <<>>, !.sink = Append(@, buf)]
    ELSE [st EXCEPT !.buffer = buf]

\* After the final window: flush any remainder.
FlushRemainder(st) ==
    IF st.buffer = <<>> THEN st
    ELSE [st EXCEPT !.buffer = <<>>, !.sink = Append(@, st.buffer)]

BatchInit ==
    /\ Parked /\ arg \in [n : 0..MaxBatchUrls] /\ fn = "none"
    /\ res = [next |-> 1, inflight |-> {}, buffer |-> <<>>, sink |-> <<>>]

\* The next window opens when the one before it is complete: one fetch+build
\* per URL of the window is issued.
OpenWindow ==
    /\ fn \in {"none", "scheduler"}
    /\ res.inflight = {} /\ res.next <= arg.n
    /\ fn' = "scheduler"
    /\ res' = [res EXCEPT !.inflight = Window(res.next, arg.n),
                          !.next = res.next + WindowSize]
    /\ UNCHANGED <<crawl, arg>>

\* A fetch+build of the window completes, with a record or, after a failure,
\* with the fallback record.
Completes(u, kind) ==
    /\ fn = "scheduler" /\ u \in res.inflight
    /\ res' = Accumulate([res EXCEPT !.inflight = @ \ {u}], [url |-> u, kind |-> kind])
    /\ UNCHANGED <<crawl, arg, fn>>

\* The last window is complete.
LastFlush ==
    /\ fn \in {"none", "scheduler"}
    /\ res.inflight = {} /\ res.next > arg.n
    /\ fn' = "done"
    /\ res' = FlushRemainder(res)
    /\ UNCHANGED <<crawl, arg>>

BatchNext ==
    \/ OpenWindow
    \/ \E u \in 1..MaxBatchUrls, kind \in RecordKinds : Completes(u, kind)
    \/ LastFlush

SpecBatch == BatchInit /\ [][BatchNext]_vars

\* The records the sink has received, batch after batch.
RECURSIVE Delivered(_)
Delivered(sink) == IF sink = <<>> THEN <<>> ELSE Head(sink) \o Delivered(Tail(sink))

MaxQueued == 12

PoolInit ==
    /\ Parked /\ arg \in [variant : Variants, queued : 0..MaxQueued] /\ fn = "none"
    /\ res = [queued |-> arg.queued, inFlight |-> 0, handled |-> 0]

\* The pool takes the next request and starts its fetch.
PoolTake ==
    /\ res.queued > 0
    /\ SlotFree(res.inFlight, DetailBound(arg.variant))
    /\ fn' = "run"
    /\ res' = [res EXCEPT !.queued = @ - 1, !.inFlight = @ + 1]
    /\ UNCHANGED <<crawl, arg>>

\* A requestHandler (or failedRequestHandler) returns.
PoolDone ==
    /\ res.inFlight > 0
    /\ res' = [res EXCEPT !.inFlight = @ - 1, !.handled = @ + 1]
    /\ UNCHANGED <<crawl, arg, fn>>

PoolNext == PoolTake \/ PoolDone

SpecPool == PoolInit /\ [][PoolNext]_vars

\* C27: the detail fetches in flight never exceed the crawler's
\* maxConcurrency (1, 2 or 10), however many URLs are queued.
C27_BoundedDetailFetches ==
    /\ res.inFlight <= DetailBound(arg.variant)
    /\ DetailBound(arg.variant) \in {1, 2, 10}

\* C27 witness: the hybrid program's detail crawler has ten fetches in
\* flight and more URLs waiting.
C27_Witness == arg.variant = "hybrid" /\ res.inFlight = 10 /\ res.queued > 0

\* ====================================================== job type of a job
\* A detail page by the employmentType of its JSON-LD posting (absent, a
\* string or a list of strings) and the text of its contract-type element.
\* A string is a sequence of pieces, <<>> the empty string.
MaxTypes == 2

TypeNames == {"FULL_TIME", "CONTRACTOR"}
EmploymentTypes ==
    {[kind |-> "absent", v |-> <<>>]}
    \cup [kind : {"string"}, v : {<<>>} \cup {<<n>> : n \in TypeNames}]
    \cup [kind : {"list"}, v : SeqsUpTo(TypeNames, MaxTypes)]
TypedPages == [employmentType : EmploymentTypes, page : {<<>>, <<"Permanent">>}]

\* The record's job_type: null, a string, or a list.
NullType == [kind |-> "null", v |-> <<>>]
StringType(s) == [kind |-> "string", v |-> s]

\* JavaScript truthiness: a list is truthy, a string unless it is empty.
Truthy(x) == x.kind = "list" \/ (x.kind = "string" /\ x.v # <<>>)

\* x || null
OrNull(x) == IF Truthy(x) THEN x ELSE NullType

\* list.join(', ')
RECURSIVE Join(_)
Join(list) ==
    IF list = <<>> THEN <<>>
    ELSE IF Len(list) = 1 THEN <<list[1]>>
    ELSE <<list[1], ", ">> \o Join(Tail(list))

\* Cheerio program: job_type: e.employmentType || null in the extractor; the
\* page's text when that is empty; job_type: data.job_type || null.
CheerioJobType(p) ==
    LET json == OrNull(p.employmentType)
        data == IF Truthy(json) THEN json ELSE OrNull(StringType(p.page))
    IN OrNull(data)

\* Earlier copy of the api program:
\* jsonLd?.employmentType || (Array.isArray(...) ? ....join(', ') : null)
EarlierJobType(p) ==
    IF Truthy(p.employmentType) THEN p.employmentType
    ELSE IF p.employmentType.kind = "list" THEN StringType(Join(p.employmentType.v))
    ELSE NullType

\* Hybrid and api programs:
\* Array.isArray(jsonLd?.employmentType) ? jsonLd.employmentType.join(', ')
\*                                       : jsonLd?.employmentType || null
JobType(p) ==
    IF p.employmentType.kind = "list" THEN StringType(Join(p.employmentType.v))
    ELSE OrNull(p.employmentType)

JobTypeInit == Parked /\ arg \in TypedPages /\ fn = "none" /\ res = NullType

CheerioDetailJobType ==
    /\ fn = "none"
    /\ fn' = "CheerioCrawler"
    /\ res' = CheerioJobType(arg)
    /\ UNCHANGED <<crawl, arg>>

HybridDetailJobType ==
    /\ fn = "none"
    /\ fn' = "detailCrawler"
    /\ res' = JobType(arg)
    /\ UNCHANGED <<crawl, arg>>

EarlierApiDetailJobType ==
    /\ fn = "none"
    /\ fn' = "earlier requestHandler"
    /\ res' = EarlierJobType(arg)
    /\ UNCHANGED <<crawl, arg>>

ApiDetailJobType ==
    /\ fn = "none"
    /\ fn' = "requestHandler"
    /\ res' = JobType(arg)
    /\ UNCHANGED <<crawl, arg>>

JobTypeNext ==
    \/ CheerioDetailJobType
    \/ HybridDetailJobType
    \/ EarlierApiDetailJobType
    \/ ApiDetailJobType

SpecJobType == JobTypeInit /\ [][JobTypeNext]_vars

\* C29: a posting whose employmentType is a list gives the record the
\* job_type made of the list's values joined by a comma, and job_type is
\* never a list.
C29_JobTypeJoined ==
    fn # "none" =>
        /\ res.kind # "list"
        /\ arg.employmentType.kind = "list" =>
               res = StringType(Join(arg.employmentType.v))

====
